---- MODULE Spec2Model ----
(* A model of the card generator's core: the capability enumeration, the     *)
(* generator configs, the generator classes and their factory                *)
(* (generator/generators.py), the two-phase pipeline of main                 *)
(* (generator/read-generate-import.py), and GeneratorResponse's persistence. *)
EXTENDS Integers, Sequences, FiniteSets, TLC

VARIABLES
    \* ---- main (read-generate-import.py)
    pc,                           \* position of main
    err,                          \* the exception that ended main, or "none"
    args,                         \* argparse Namespace (line 84)
    input_words,                  \* list[WordWithContext] (line 99)
    deck,                         \* words with a card in the target collection (Anki)
    disk,                         \* processing directory: word -> "none" | "valid" | "invalid"
    imported_existing_words,      \* result of process_existing_cards (line 102)
    input_words_except_imported,  \* line 104
    generators,                   \* line 106
    filtered_words,               \* process_new_cards, line 32
    idx,                          \* generate_text_and_image: next word to generate
    generated_cards_data,         \* process_new_cards, line 33
    failed,                       \* indices of filtered_words whose generation raised
    calls,                        \* provider calls made: <<leg, word>>
    import_count,                 \* imports per word, per phase
    phase1_done, phase2_entered,
    \* ---- generators.py exercised on its own
    objects,                      \* generators constructed so far
    last_call,                    \* the last call of from_args, create or generate, and its outcome
    provider_calls,               \* calls that reached a provider's API function
    \* ---- GeneratorResponse.save_image / save_audio
    response,                     \* the GeneratorResponse
    file,                         \* the destination path: whether a file is there, and its content
    op,                           \* the save operation last started on the response
    spc,                          \* position inside a save operation
    pos,                          \* chunks of audio_bytes consumed so far
    result,                       \* how the last save ended
    opened                        \* whether the last save opened the path

main_vars == <<pc, err, args, input_words, deck, disk, imported_existing_words,
               input_words_except_imported, generators, filtered_words, idx,
               generated_cards_data, failed, calls, import_count,
               phase1_done, phase2_entered>>
factory_vars == <<objects, last_call, provider_calls>>
save_vars == <<response, file, op, spc, pos, result, opened>>
vars == <<main_vars, factory_vars, save_vars>>

-----------------------------------------------------------------------------
(* Bounds *)
MaxInput == 2
MaxObjects == 1
MaxChunks == 2

Words == {"a", "b"}
Contexts == {"ctx"}
WordWithContext == [word : Words, context : Contexts]

-----------------------------------------------------------------------------
(* AvailableModels *)

Members == {"GPT_4o", "GPT_3_5_turbo", "COHERE", "KANDINSKY_3", "ELEVENLABS"}

Value(m) ==
    CASE m = "GPT_4o" -> "gpt-4o"
      [] m = "GPT_3_5_turbo" -> "gpt-3.5-turbo"
      [] m = "COHERE" -> "cohere"
      [] m = "KANDINSKY_3" -> "kandinsky"
      [] m = "ELEVENLABS" -> "elevenlabs"

available_text_models == {"GPT_4o", "GPT_3_5_turbo", "COHERE"}
available_image_models == {"KANDINSKY_3"}
available_tts_models == {"ELEVENLABS"}

available_models ==
    (available_text_models \cup available_image_models) \cup available_tts_models

\* a dict literal: of two entries with one key the later one stays (@@ keeps
\* the left one, so the entries are listed last first)
backward_mapping ==
    (Value("KANDINSKY_3") :> "KANDINSKY_3") @@ (Value("ELEVENLABS") :> "ELEVENLABS")
    @@ (Value("COHERE") :> "COHERE") @@ (Value("GPT_3_5_turbo") :> "GPT_3_5_turbo")
    @@ (Value("GPT_4o") :> "GPT_4o")

-----------------------------------------------------------------------------
(* GeneratorConfig *)

GeneratorConfig(model, api_key, secret_key, language) ==
    [model |-> model, API_KEY |-> api_key, SECRET_KEY |-> secret_key, language |-> language]

\* str_to_model[...] raises KeyError on a string that is no key
from_args_default(a) ==
    LET lookup(s) == IF s \in DOMAIN backward_mapping THEN backward_mapping[s] ELSE "COHERE"
    IN [err |-> "none",
        configs |-> << GeneratorConfig(lookup(a.text_model), a.text_api_key, a.text_secret_key, a.language),
                       GeneratorConfig(lookup(a.image_model), a.image_api_key, a.image_secret_key, a.language),
                       GeneratorConfig(lookup(a.voice_model), a.voice_api_key, a.voice_secret_key, a.language) >>]

from_args(a) ==
    IF a.text_model \notin DOMAIN backward_mapping THEN [err |-> "KeyError", configs |-> << >>]
    ELSE IF a.image_model \notin DOMAIN backward_mapping THEN [err |-> "KeyError", configs |-> << >>]
    ELSE IF a.voice_model \notin DOMAIN backward_mapping THEN [err |-> "KeyError", configs |-> << >>]
    ELSE [err |-> "none",
          configs |-> << GeneratorConfig(backward_mapping[a.text_model], a.text_api_key, a.text_secret_key, a.language),
                         GeneratorConfig(backward_mapping[a.image_model], a.image_api_key, a.image_secret_key, a.language),
                         GeneratorConfig(backward_mapping[a.voice_model], a.voice_api_key, a.voice_secret_key, a.language) >>]

-----------------------------------------------------------------------------
(* The generator classes and GeneratorFactory *)

KandinskyInit_api_key_only(config) ==
    IF config.API_KEY = "" THEN "AssertionError" ELSE "none"

\* KandinskyImageGenerator.__init__: the exception raised, or "none"
KandinskyInit(config) ==
    IF config.API_KEY = "" THEN "AssertionError"
    ELSE IF config.SECRET_KEY = "" THEN "AssertionError"
    ELSE "none"

\* ElevenlabsTTSGenerator.__init__
ElevenlabsInit(config) ==
    IF config.API_KEY = "" THEN "AssertionError" ELSE "none"

MAPPING(m) ==
    CASE m = "GPT_3_5_turbo" -> "GPTextGenerator"
      [] m = "GPT_4o" -> "GPTextGenerator"
      [] m = "KANDINSKY_3" -> "KandinskyImageGenerator"
      [] m = "ELEVENLABS" -> "ElevenlabsTTSGenerator"
      [] m = "COHERE" -> "CohereTextGenerator"

\* MAPPING[config.model](config): the class's constructor
Construct(cls, config) ==
    LET e == CASE cls = "KandinskyImageGenerator" -> KandinskyInit(config)
               [] cls = "ElevenlabsTTSGenerator" -> ElevenlabsInit(config)
               [] OTHER -> "none"
    IN IF e = "none" THEN [err |-> "none", cls |-> cls, config |-> config]
       ELSE [err |-> e, cls |-> "none", config |-> config]

create_unchecked(config) ==
    IF config.model \in Members THEN Construct(MAPPING(config.model), config)
    ELSE [err |-> "KeyError", cls |-> "none", config |-> config]

\* GeneratorFactory.create
create(config) ==
    IF config.model \in available_models THEN Construct(MAPPING(config.model), config)
    ELSE [err |-> "ValueError", cls |-> "none", config |-> config]

-----------------------------------------------------------------------------
(* generate: what each generator does with an input and its provider's answer *)

Outcomes == {"ok", "RemoteProviderFailure"}

\* GPTextGenerator.generate / CohereTextGenerator.generate
TextGenerate(input_type, outcome) ==
    IF input_type = "WordWithContext" THEN outcome ELSE "ValueError"

\* KandinskyImageGenerator.generate: the provider's failure is not caught here
KandinskyGenerate(input_type, outcome) ==
    IF input_type = "str" THEN outcome ELSE "ValueError"

\* ElevenlabsAudio.VOICE_IDS
VOICE_IDS == {"english", "german"}

generate_audio_default_voice(language, outcome) == outcome

\* ElevenlabsAudio.generate_audio: VOICE_IDS[language] comes before the request
generate_audio(language, outcome) ==
    IF language \in VOICE_IDS THEN outcome ELSE "KeyError"

\* ElevenlabsTTSGenerator.generate
ElevenlabsGenerate(input_type, language, outcome) ==
    IF input_type = "str" THEN generate_audio(language, outcome) ELSE "ValueError"

-----------------------------------------------------------------------------
(* The collaborators of the pipeline *)

\* validation.filter_words_are_present_in_deck: the words not yet in the deck
filter_words_are_present_in_deck(d, words) ==
    SelectSeq(words, LAMBDA e : e.word \notin d)

\* file_operations.cards_in_directory: the cards found in the processing directory
cards_in_directory(k) ==
    {[word |-> w, valid |-> (k[w] = "valid")] : w \in {x \in Words : k[x] # "none"}}

\* validation.discard_invalid_cards
discard_invalid_cards(cards) == {c \in cards : c.valid}

\* entities.cards_to_dict: keyed by the card's word
cards_to_dict(cards) == cards

-----------------------------------------------------------------------------
(* The pipeline's own functions *)

\* process_existing_cards, lines 16-23: existing_cards_data
existing_cards_data(d, k, words) ==
    LET filtered == filter_words_are_present_in_deck(d, words)
        input_words_without_context == {filtered[i].word : i \in DOMAIN filtered}
        relevant_cards_in_directory ==
            {card \in cards_in_directory(k) : card.word \in input_words_without_context}
        existing_cards_validated == discard_invalid_cards(relevant_cards_in_directory)
    IN cards_to_dict(existing_cards_validated)

exclude_nothing(words, imported) == words

exclude_imported_words(words, imported) ==
    IF Cardinality(imported) >= 1
    THEN SelectSeq(words, LAMBDA e : e.word \notin imported)
    ELSE words

new_words_unfiltered(d, words) == words

\* process_new_cards, line 32: the words handed to generation
new_words(d, words) == filter_words_are_present_in_deck(d, words)

-----------------------------------------------------------------------------
(* main *)

Providers == [text : {"cohere", "gpt-4o", "llama"},
              image : {"kandinsky", "dalle"},
              voice : {"elevenlabs", "polly"}]

\* the options of one run; the defaults of lines 67-81 are among them
ArgSpace ==
    {[text_model |-> p.text, text_api_key |-> "alLJ", text_secret_key |-> "",
      image_model |-> p.image, image_api_key |-> ik, image_secret_key |-> isk,
      voice_model |-> p.voice, voice_api_key |-> vk, voice_secret_key |-> "",
      language |-> "english"] :
        p \in Providers, ik \in {"", "D4A1"}, isk \in {"", "E6A4"}, vk \in {"", "08d4"}}

NoArgs == [text_model |-> "", text_api_key |-> "", text_secret_key |-> "",
           image_model |-> "", image_api_key |-> "", image_secret_key |-> "",
           voice_model |-> "", voice_api_key |-> "", voice_secret_key |-> "",
           language |-> ""]

Inputs == UNION {[1..n -> WordWithContext] : n \in 0..MaxInput}

NoImports == [w \in Words |-> [phase1 |-> 0, phase2 |-> 0]]

InitMain ==
    /\ pc = "start"
    /\ err = "none"
    /\ args = NoArgs
    /\ input_words = << >>
    /\ deck \in SUBSET Words
    /\ disk \in [Words -> {"none", "valid", "invalid"}]
    /\ imported_existing_words = {}
    /\ input_words_except_imported = << >>
    /\ generators = << >>
    /\ filtered_words = << >>
    /\ idx = 1
    /\ generated_cards_data = {}
    /\ failed = {}
    /\ calls = {}
    /\ import_count = NoImports
    /\ phase1_done = FALSE
    /\ phase2_entered = FALSE

IdleMain ==
    /\ pc = "idle"
    /\ err = "none"
    /\ args = NoArgs
    /\ input_words = << >>
    /\ deck = {}
    /\ disk = [w \in Words |-> "none"]
    /\ imported_existing_words = {}
    /\ input_words_except_imported = << >>
    /\ generators = << >>
    /\ filtered_words = << >>
    /\ idx = 1
    /\ generated_cards_data = {}
    /\ failed = {}
    /\ calls = {}
    /\ import_count = NoImports
    /\ phase1_done = FALSE
    /\ phase2_entered = FALSE

\* lines 84-99: the options are parsed and the input file is read
ReadInputs ==
    /\ pc = "start"
    /\ args' \in ArgSpace
    /\ input_words' \in Inputs
    /\ pc' = "process_existing_cards"
    /\ UNCHANGED <<err, deck, disk, imported_existing_words, input_words_except_imported,
                   generators, filtered_words, idx, generated_cards_data, failed, calls,
                   import_count, phase1_done, phase2_entered>>

\* anki_importer.import_card_collection: every card of the collection is added
\* to the deck, or the import raises
Imported(words, phase) ==
    [w \in Words |-> IF w \in words
                     THEN [import_count[w] EXCEPT ![phase] = @ + 1]
                     ELSE import_count[w]]

\* line 102: process_existing_cards (lines 15-28)
ProcessExistingCards ==
    /\ pc = "process_existing_cards"
    /\ LET data == existing_cards_data(deck, disk, input_words)
           words == {card.word : card \in data}
       IN \/ /\ import_count' = Imported(words, "phase1")
             /\ deck' = deck \cup words
             /\ imported_existing_words' = words
             /\ phase1_done' = TRUE
             /\ pc' = "exclude_imported_words"
             /\ err' = err
          \/ /\ data # {}
             /\ pc' = "aborted"
             /\ err' = "ImportError"
             /\ UNCHANGED <<import_count, deck, imported_existing_words, phase1_done>>
    /\ UNCHANGED <<args, input_words, disk, input_words_except_imported, generators,
                   filtered_words, idx, generated_cards_data, failed, calls, phase2_entered>>

\* line 104
ExcludeImportedWords ==
    /\ pc = "exclude_imported_words"
    /\ input_words_except_imported' = exclude_imported_words(input_words, imported_existing_words)
    /\ pc' = "from_args"
    /\ UNCHANGED <<err, args, input_words, deck, disk, imported_existing_words, generators,
                   filtered_words, idx, generated_cards_data, failed, calls, import_count,
                   phase1_done, phase2_entered>>

\* lines 105-111: the configs are built and every generator is constructed
\* (list(map(...)) constructs all three before process_new_cards is called)
CreateGeneratorsLazily ==
    /\ pc = "from_args"
    /\ generators' = << >>
    /\ pc' = "process_new_cards"
    /\ UNCHANGED <<err, args, input_words, deck, disk, imported_existing_words,
                   input_words_except_imported, filtered_words, idx, generated_cards_data,
                   failed, calls, import_count, phase1_done, phase2_entered>>

CreateGenerators ==
    /\ pc = "from_args"
    /\ LET generators_configs == from_args(args)
           made == [i \in DOMAIN generators_configs.configs |->
                        create(generators_configs.configs[i])]
           raised == {i \in DOMAIN made : made[i].err # "none"}
       IN IF generators_configs.err # "none"
          THEN /\ pc' = "aborted"
               /\ err' = generators_configs.err
               /\ generators' = generators
          ELSE IF raised # {}
          THEN /\ pc' = "aborted"
               /\ err' = made[CHOOSE i \in raised : \A j \in raised : i <= j].err
               /\ generators' = generators
          ELSE /\ pc' = "process_new_cards"
               /\ err' = err
               /\ generators' = made
    /\ UNCHANGED <<args, input_words, deck, disk, imported_existing_words,
                   input_words_except_imported, filtered_words, idx, generated_cards_data,
                   failed, calls, import_count, phase1_done, phase2_entered>>

\* line 112, process_new_cards line 32
FilterNewWords ==
    /\ pc = "process_new_cards"
    /\ filtered_words' = new_words(deck, input_words_except_imported)
    /\ phase2_entered' = TRUE
    /\ idx' = 1
    /\ pc' = "generate"
    /\ UNCHANGED <<err, args, input_words, deck, disk, imported_existing_words,
                   input_words_except_imported, generators, generated_cards_data, failed,
                   calls, import_count, phase1_done>>

\* generate_cards.generate_text_and_image, one word: text, then the image from
\* the text's prompt, then the audio; an error of any leg is caught, the word's
\* card is skipped and the loop goes on
GenerateCard ==
    /\ pc = "generate"
    /\ idx <= Len(filtered_words)
    /\ \E ot \in Outcomes, oi \in Outcomes, oa \in Outcomes :
        LET e == filtered_words[idx]
            text == TextGenerate("WordWithContext", ot)
            image == IF text = "ok" THEN KandinskyGenerate("str", oi) ELSE "skipped"
            audio == IF image = "ok"
                     THEN ElevenlabsGenerate("str", generators[3].config.language, oa)
                     ELSE "skipped"
        IN /\ calls' = calls \cup {<<"text", e.word>>}
                            \cup (IF image # "skipped" THEN {<<"image", e.word>>} ELSE {})
                            \cup (IF audio # "skipped" THEN {<<"audio", e.word>>} ELSE {})
           /\ IF audio = "ok"
              THEN /\ generated_cards_data' = generated_cards_data \cup {e}
                   /\ failed' = failed
              ELSE /\ generated_cards_data' = generated_cards_data
                   /\ failed' = failed \cup {idx}
    /\ idx' = idx + 1
    /\ UNCHANGED <<pc, err, args, input_words, deck, disk, imported_existing_words,
                   input_words_except_imported, generators, filtered_words, import_count,
                   phase1_done, phase2_entered>>

ImportOnlyCompleteRuns ==
    /\ pc = "generate"
    /\ idx > Len(filtered_words)
    /\ LET words == IF failed = {} THEN {e.word : e \in generated_cards_data} ELSE {}
       IN /\ import_count' = Imported(words, "phase2")
          /\ deck' = deck \cup words
          /\ pc' = "done"
          /\ err' = err
    /\ UNCHANGED <<args, input_words, disk, imported_existing_words,
                   input_words_except_imported, generators, filtered_words, idx,
                   generated_cards_data, failed, calls, phase1_done, phase2_entered>>

\* process_new_cards line 35, then lines 113-114
ImportNewCards ==
    /\ pc = "generate"
    /\ idx > Len(filtered_words)
    /\ LET words == {e.word : e \in generated_cards_data}
       IN \/ /\ import_count' = Imported(words, "phase2")
             /\ deck' = deck \cup words
             /\ pc' = "done"
             /\ err' = err
          \/ /\ words # {}
             /\ pc' = "aborted"
             /\ err' = "ImportError"
             /\ UNCHANGED <<import_count, deck>>
    /\ UNCHANGED <<args, input_words, disk, imported_existing_words,
                   input_words_except_imported, generators, filtered_words, idx,
                   generated_cards_data, failed, calls, phase1_done, phase2_entered>>

NoCall == [op |-> "none", input |-> "none", err |-> "none", out |-> "none"]

IdleFactory ==
    /\ objects = {}
    /\ last_call = NoCall
    /\ provider_calls = {}

\* the destination path with no file at it
NoFile == [exists |-> FALSE, content |-> << >>]

\* a file at the destination path
File(content) == [exists |-> TRUE, content |-> content]

\* GeneratorResponse(): every field at its default (audio_bytes is a list)
DefaultResponse ==
    [image_bytes |-> [type |-> "bytes", data |-> << >>],
     audio_bytes |-> [type |-> "list", chunks |-> << >>, raises |-> FALSE]]

IdleSave ==
    /\ response = DefaultResponse
    /\ file = NoFile
    /\ op = "none"
    /\ spc = "idle"
    /\ pos = 0
    /\ result = "none"
    /\ opened = FALSE

Init == InitMain /\ IdleFactory /\ IdleSave

Next ==
    \/ (ReadInputs /\ UNCHANGED <<factory_vars, save_vars>>)
    \/ (ProcessExistingCards /\ UNCHANGED <<factory_vars, save_vars>>)
    \/ (ExcludeImportedWords /\ UNCHANGED <<factory_vars, save_vars>>)
    \/ (CreateGenerators /\ UNCHANGED <<factory_vars, save_vars>>)
    \/ (FilterNewWords /\ UNCHANGED <<factory_vars, save_vars>>)
    \/ (GenerateCard /\ UNCHANGED <<factory_vars, save_vars>>)
    \/ (ImportNewCards /\ UNCHANGED <<factory_vars, save_vars>>)

Spec == Init /\ [][Next]_vars

-----------------------------------------------------------------------------
(* The pipeline's claims *)

WordsOf(seq) == {seq[i].word : i \in DOMAIN seq}
Legs == {"text", "image", "audio"}
Generated(w) == \E leg \in Legs : <<leg, w>> \in calls

\* C1: phase 1 is over before phase 2 starts, and a word that phase 1 returns as
\* imported is in neither the list handed to process_new_cards nor the list
\* handed to generation: it is imported once, in phase 1, and no generator is
\* invoked for it.
C1_ImportedNotRegenerated ==
    /\ (pc \in {"process_new_cards", "generate", "done"} \/ phase2_entered) => phase1_done
    /\ \A w \in imported_existing_words :
        /\ w \notin WordsOf(input_words_except_imported)
        /\ w \notin WordsOf(filtered_words)
        /\ ~Generated(w)
        /\ import_count[w] = [phase1 |-> 1, phase2 |-> 0]

C1_Witness ==
    /\ pc = "done"
    /\ calls # {}
    /\ \E w \in imported_existing_words : w \in WordsOf(input_words)

\* C2: the words handed to generation are exactly the input entries, in input
\* order, whose word is not in the target collection and was not imported in
\* phase 1; for input [a, b] with a in the collection, b not, and no cards on
\* disk, they are exactly [b].
C2_FilteredWordsExact ==
    (pc = "generate") =>
        /\ filtered_words =
              SelectSeq(input_words,
                        LAMBDA e : e.word \notin deck /\ e.word \notin imported_existing_words)
        /\ ( /\ input_words = << [word |-> "a", context |-> "ctx"], [word |-> "b", context |-> "ctx"] >>
             /\ "a" \in deck /\ "b" \notin deck
             /\ \A w \in Words : disk[w] = "none" )
           => filtered_words = << [word |-> "b", context |-> "ctx"] >>

C2_Witness ==
    /\ pc = "generate"
    /\ input_words = << [word |-> "a", context |-> "ctx"], [word |-> "b", context |-> "ctx"] >>
    /\ "a" \in deck /\ "b" \notin deck
    /\ \A w \in Words : disk[w] = "none"
    /\ filtered_words = << [word |-> "b", context |-> "ctx"] >>

\* C3 as stated: no generator is invoked for an input word that has a card in
\* the processing directory, whatever the validity check says of the card.
C3_NoGenerationForWordsOnDisk ==
    \A w \in WordsOf(input_words) : disk[w] # "none" => ~Generated(w)

\* C3, amended: no generator is invoked for an input word whose card in the
\* processing directory passes the validity check.
C3_NoGenerationForValidCardsOnDisk ==
    \A w \in WordsOf(input_words) : disk[w] = "valid" => ~Generated(w)

C3_Witness ==
    /\ pc = "done"
    /\ calls # {}
    /\ \E w \in WordsOf(input_words) : disk[w] = "valid" /\ w \in imported_existing_words

BadConfig(a) ==
    \/ from_args(a).err # "none"
    \/ \E i \in DOMAIN from_args(a).configs : create(from_args(a).configs[i]).err # "none"

\* C5: when building a config or constructing a generator fails, the run is
\* aborted with that error before generation: process_new_cards is never
\* entered and no generate call is made for any word.
C5_ConstructionErrorsAbortBeforeGeneration ==
    /\ (pc # "start" /\ BadConfig(args)) =>
          /\ pc \notin {"process_new_cards", "generate", "done"}
          /\ ~phase2_entered
          /\ calls = {}
    /\ (pc = "aborted" /\ err \in {"KeyError", "AssertionError", "ValueError"}) =>
          /\ BadConfig(args)
          /\ ~phase2_entered
          /\ calls = {}

C5_Witness ==
    /\ pc = "aborted"
    /\ err = "AssertionError"
    /\ phase1_done
    /\ input_words # << >>

-----------------------------------------------------------------------------
(* generators.py on its own: configs are built, generators are created by the *)
(* factory and asked to generate                                              *)

\* what a caller can pass as config.model: the members, and strings that are no
\* member (a member's value is not the member)
Models == Members \cup {"cohere"}

Configs == [model : Models, API_KEY : {"", "key"}, SECRET_KEY : {"", "secret"},
            language : {"english", "french"}]

FactoryArgSpace ==
    {[text_model |-> t, text_api_key |-> "alLJ", text_secret_key |-> "",
      image_model |-> i, image_api_key |-> "D4A1", image_secret_key |-> "E6A4",
      voice_model |-> v, voice_api_key |-> "08d4", voice_secret_key |-> "",
      language |-> "english"] :
        t \in {Value(m) : m \in Members} \cup {"llama", "COHERE"},
        i \in {"kandinsky", "dalle"},
        v \in {"elevenlabs", "polly"}}

InputTypes == {"WordWithContext", "str"}

\* generate of the class of g: the exception raised, or "ok"
GenerateResult(g, input_type, outcome) ==
    CASE g.cls = "KandinskyImageGenerator" -> KandinskyGenerate(input_type, outcome)
      [] g.cls = "ElevenlabsTTSGenerator" ->
             ElevenlabsGenerate(input_type, g.config.language, outcome)
      [] OTHER -> TextGenerate(input_type, outcome)

\* the API functions that generate reaches, with the arguments it passes
ProviderCalls(g, input_type) ==
    LET call(api) == [api |-> api, API_KEY |-> g.config.API_KEY,
                      SECRET_KEY |-> g.config.SECRET_KEY, language |-> g.config.language]
    IN CASE g.cls = "KandinskyImageGenerator" ->
               IF input_type = "str" THEN {call("KandinskyApi.generate_image")} ELSE {}
         [] g.cls = "ElevenlabsTTSGenerator" ->
               IF input_type = "str"
               THEN {call("ElevenlabsAudio.generate_audio")}
                    \cup (IF generate_audio(g.config.language, "ok") = "ok"
                          THEN {call("requests.post")} ELSE {})
               ELSE {}
         [] g.cls = "GPTextGenerator" ->
               IF input_type = "WordWithContext" THEN {call("chat_generate_text")} ELSE {}
         [] OTHER ->
               IF input_type = "WordWithContext" THEN {call("cohere_generate_text")} ELSE {}

FromArgsCall ==
    /\ \E a \in FactoryArgSpace :
          last_call' = [op |-> "from_args", input |-> a,
                        err |-> from_args(a).err, out |-> from_args(a).configs]
    /\ UNCHANGED <<objects, provider_calls>>

CreateCall ==
    /\ \E config \in Configs :
        LET made == create(config)
            g == [cls |-> made.cls, config |-> made.config]
        IN /\ made.err # "none" \/ g \in objects \/ Cardinality(objects) < MaxObjects
           /\ last_call' = [op |-> "create", input |-> config, err |-> made.err, out |-> made.cls]
           /\ objects' = IF made.err = "none" THEN objects \cup {g} ELSE objects
    /\ UNCHANGED provider_calls

GenerateCall ==
    /\ \E g \in objects, input_type \in InputTypes, outcome \in Outcomes :
        /\ last_call' = [op |-> "generate", input |-> <<g, input_type>>,
                         err |-> GenerateResult(g, input_type, outcome), out |-> "none"]
        /\ provider_calls' = provider_calls \cup ProviderCalls(g, input_type)
    /\ UNCHANGED objects

InitFactory == IdleMain /\ IdleFactory /\ IdleSave

NextFactory ==
    \/ (FromArgsCall /\ UNCHANGED <<main_vars, save_vars>>)
    \/ (CreateCall /\ UNCHANGED <<main_vars, save_vars>>)
    \/ (GenerateCall /\ UNCHANGED <<main_vars, save_vars>>)

SpecFactory == InitFactory /\ [][NextFactory]_vars

-----------------------------------------------------------------------------
(* The factory's claims *)

\* the configs that lack a credential their model's generator requires
LacksCredential(config) ==
    \/ config.model = "KANDINSKY_3" /\ (config.API_KEY = "" \/ config.SECRET_KEY = "")
    \/ config.model = "ELEVENLABS" /\ config.API_KEY = ""

\* C6: constructing the image generator with an empty API_KEY or SECRET_KEY, or
\* the TTS generator with an empty API_KEY, fails with the constructor's
\* assertion error; no such generator exists, and no call of
\* KandinskyApi.generate_image or ElevenlabsAudio.generate_audio carries an
\* empty required credential.
C6_EmptyCredentialFailsConstruction ==
    /\ (last_call.op = "create" /\ LacksCredential(last_call.input)) =>
          (last_call.err = "AssertionError" /\ last_call.out = "none")
    /\ \A g \in objects :
          /\ g.cls = "KandinskyImageGenerator" =>
                (g.config.API_KEY # "" /\ g.config.SECRET_KEY # "")
          /\ g.cls = "ElevenlabsTTSGenerator" => g.config.API_KEY # ""
    /\ \A c \in provider_calls :
          /\ c.api = "KandinskyApi.generate_image" => (c.API_KEY # "" /\ c.SECRET_KEY # "")
          /\ c.api = "ElevenlabsAudio.generate_audio" => c.API_KEY # ""

C6_Witness ==
    /\ last_call.op = "create"
    /\ last_call.input.model = "KANDINSKY_3"
    /\ last_call.input.API_KEY # ""
    /\ last_call.input.SECRET_KEY = ""
    /\ last_call.err = "AssertionError"
    /\ \E c \in provider_calls : c.api = "ElevenlabsAudio.generate_audio"

\* C7 as stated: create returns a generator of type MAPPING[config.model] for
\* every config whose model is in available_models(), and fails with the
\* unsupported-provider error for every other config.
C7_CreateReturnsMappedType ==
    last_call.op = "create" =>
        IF last_call.input.model \in available_models
        THEN last_call.err = "none" /\ last_call.out = MAPPING(last_call.input.model)
        ELSE last_call.err = "ValueError" /\ last_call.out = "none"

\* C7, amended: create returns a generator of type MAPPING[config.model] for
\* every config whose model is in available_models() and whose required
\* credentials are not empty; with a required credential empty it fails with
\* the constructor's assertion error; for every config whose model is not in
\* available_models() it fails with the unsupported-provider error.
C7_CreateReturnsMappedTypeGivenCredentials ==
    last_call.op = "create" =>
        IF last_call.input.model \notin available_models
        THEN last_call.err = "ValueError" /\ last_call.out = "none"
        ELSE IF LacksCredential(last_call.input)
        THEN last_call.err = "AssertionError" /\ last_call.out = "none"
        ELSE /\ last_call.err = "none"
             /\ last_call.out = MAPPING(last_call.input.model)
             /\ [cls |-> MAPPING(last_call.input.model), config |-> last_call.input] \in objects

C7_Witness ==
    /\ last_call.op = "create"
    /\ last_call.input.model = "KANDINSKY_3"
    /\ last_call.err = "none"
    /\ last_call.out = "KandinskyImageGenerator"

\* C8: backward_mapping takes every member's value to that member, no member
\* is the image of two strings, and from_args fails with a KeyError, returning
\* no config, exactly when one of its three provider strings is no member's
\* value; otherwise each config's model is the member with that value.
C8_BackwardMappingRoundTrip ==
    /\ \A m \in Members :
          /\ Value(m) \in DOMAIN backward_mapping
          /\ backward_mapping[Value(m)] = m
          /\ Cardinality({s \in DOMAIN backward_mapping : backward_mapping[s] = m}) = 1
    /\ last_call.op = "from_args" =>
          LET a == last_call.input
              given == <<a.text_model, a.image_model, a.voice_model>>
          IN IF \E i \in 1..3 : given[i] \notin {Value(m) : m \in Members}
             THEN last_call.err = "KeyError" /\ last_call.out = << >>
             ELSE /\ last_call.err = "none"
                  /\ Len(last_call.out) = 3
                  /\ \A i \in 1..3 : /\ last_call.out[i].model \in Members
                                     /\ Value(last_call.out[i].model) = given[i]

C8_Witness ==
    /\ last_call.op = "from_args"
    /\ last_call.input.text_model = "COHERE"
    /\ last_call.input.image_model = "kandinsky"
    /\ last_call.input.voice_model = "elevenlabs"
    /\ last_call.err = "KeyError"

\* C11: when the language of a TTS generator's config is neither "english" nor
\* "german" (the languages with a voice), generate on a text fails with the
\* lookup's KeyError (on any other input with the ValueError of the type
\* check), and no request is ever posted for such a language: no voice stands
\* in for the missing one.
C11_UnmappedLanguageFailsWithoutRequest ==
    /\ (last_call.op = "generate"
          /\ last_call.input[1].cls = "ElevenlabsTTSGenerator"
          /\ last_call.input[1].config.language \notin {"english", "german"}) =>
          last_call.err = (IF last_call.input[2] = "str" THEN "KeyError" ELSE "ValueError")
    /\ \A c \in provider_calls :
          c.api = "requests.post" => c.language \in {"english", "german"}

C11_Witness ==
    /\ last_call.op = "generate"
    /\ last_call.input[1].cls = "ElevenlabsTTSGenerator"
    /\ last_call.input[1].config.language = "french"
    /\ last_call.input[2] = "str"
    /\ last_call.err = "KeyError"
    /\ \E c \in provider_calls :
          c.api = "ElevenlabsAudio.generate_audio" /\ c.language = "french"
    /\ \A c \in provider_calls : c.api # "requests.post"

-----------------------------------------------------------------------------
(* GeneratorResponse: save_image and save_audio *)

ByteValues == {"p", "q"}
Blobs == UNION {[1..n -> ByteValues] : n \in 0..MaxChunks}
Chunks == {"c1", "c2"}
ChunkLists == UNION {[1..n -> Chunks] : n \in 0..MaxChunks}

\* image_bytes: bytes, or a value of another type (a str);
\* audio_bytes: a list of chunks (the default is the empty list), or an
\* iterator that yields its chunks and then stops or raises
Responses ==
    [image_bytes : [type : {"bytes", "str"}, data : Blobs],
     audio_bytes : [type : {"list"}, chunks : ChunkLists, raises : {FALSE}]
                   \cup [type : {"iterator"}, chunks : ChunkLists, raises : BOOLEAN]]

\* a GeneratorResponse is constructed; the file at the path stays as it is
NewResponse ==
    /\ spc = "idle"
    /\ response' \in Responses
    /\ op' = "none"
    /\ pos' = 0
    /\ result' = "none"
    /\ opened' = FALSE
    /\ UNCHANGED <<file, spc>>

SaveImage ==
    /\ spc = "idle"
    /\ op' = "image"
    /\ IF response.image_bytes.type = "bytes" /\ Len(response.image_bytes.data) > 0
       THEN /\ opened' = TRUE
            /\ file' = File(response.image_bytes.data)
            /\ result' = "ok"
       ELSE /\ opened' = FALSE
            /\ file' = file
            /\ result' = "ValueError"
    /\ UNCHANGED <<response, spc, pos>>

\* save_audio up to the loop: the type check, then open(path, 'wb') creates or
\* truncates the file
SaveAudioOpen ==
    /\ spc = "idle"
    /\ op' = "audio"
    /\ IF response.audio_bytes.type = "iterator"
       THEN /\ opened' = TRUE
            /\ file' = File(<< >>)
            /\ result' = "none"
            /\ spc' = "audio_loop"
       ELSE /\ opened' = FALSE
            /\ file' = file
            /\ result' = "ValueError"
            /\ spc' = spc
    /\ UNCHANGED <<response, pos>>

\* one turn of `for chunk in self.audio_bytes`: the next chunk is written, or
\* the iterator raises and the with block closes the file and lets the error
\* through, or the iterator is exhausted and the file is closed
SaveAudioNext ==
    /\ spc = "audio_loop"
    /\ LET it == response.audio_bytes
       IN IF pos < Len(it.chunks)
          THEN /\ file' = File(Append(file.content, it.chunks[pos + 1]))
               /\ pos' = pos + 1
               /\ UNCHANGED <<spc, result>>
          ELSE IF it.raises /\ pos = Len(it.chunks)
          THEN /\ pos' = pos + 1
               /\ result' = "ChunkedEncodingError"
               /\ spc' = "idle"
               /\ file' = file
          ELSE /\ result' = "ok"
               /\ spc' = "idle"
               /\ UNCHANGED <<file, pos>>
    /\ UNCHANGED <<response, op, opened>>

InitSave == IdleMain /\ IdleFactory /\ IdleSave

NextSave ==
    \/ (NewResponse /\ UNCHANGED <<main_vars, factory_vars>>)
    \/ (SaveImage /\ UNCHANGED <<main_vars, factory_vars>>)
    \/ (SaveAudioOpen /\ UNCHANGED <<main_vars, factory_vars>>)
    \/ (SaveAudioNext /\ UNCHANGED <<main_vars, factory_vars>>)

SpecSave == InitSave /\ [][NextSave]_vars

-----------------------------------------------------------------------------
(* The claims about persistence *)

\* C9: a save that ends with an error leaves no file behind that holds only a
\* part of the artifact: either it never opened the path, or no file is there.
C9_NoPartialFileAfterError ==
    (spc = "idle" /\ result \notin {"none", "ok"}) => (~opened \/ ~file.exists)

\* C10: on a response whose image_bytes / audio_bytes is empty or the default,
\* save_image / save_audio fails with the invalid-artifact error and never
\* opens the destination file.
C10_EmptyArtifactIsRejected ==
    /\ (op = "image" /\ response.image_bytes.data = << >>) =>
          (~opened /\ result = "ValueError")
    /\ (op = "audio" /\ response.audio_bytes.chunks = << >> /\ ~response.audio_bytes.raises) =>
          (~opened /\ (spc = "idle" => result = "ValueError"))

====
